---- MODULE Spec2Model ----
(***************************************************************************)
(* Symbol interning of the dermis value model.                             *)
(*                                                                         *)
(* An Interpreter owns one RwLock<SymbolTable> through an Arc.  Symbols    *)
(* hold an Arc<String> for their name (a strong reference into the string  *)
(* heap) and a Weak reference to the table of the Interpreter that minted  *)
(* them.  Strings are sequences of one-character strings.                  *)
(***************************************************************************)
EXTENDS Integers, Sequences, FiniteSets, TLC

VARIABLES
    alive,           \* alive[i]: Interpreter i has not been dropped (its Arc is the only strong one)
    poisoned,        \* poisoned[i]: the RwLock of i's table is poisoned
    global_symbols,  \* global_symbols[i]: SymbolTable.global_symbols, a Vec of Arc<String> (heap ids)
    symbols,         \* symbols[i]: SymbolTable.symbols, map entries [key: Symbol, bucket: Vec of heap ids]
    heap,            \* heap[id]: the String behind Arc number id, or Freed
    held,            \* Symbols the caller currently holds
    lastOp,          \* the call made last: arguments, result, lock acquisitions
    rejected,        \* rejected[i]: some call on i has failed validation (history)
    steps,           \* number of calls made so far
    probe,           \* the pure function applied last: its name, its inputs, its result
    coll,            \* the caller's Arrays and Objects: the shared nodes, the handles, the last call
    call             \* the intern call in progress: its position, its arguments, the guard it holds

vars == <<alive, poisoned, global_symbols, symbols, heap, held, lastOp, rejected, steps, probe,
          coll, call>>

(***************************************************************************)
(* Bounds of the model.                                                    *)
(***************************************************************************)
MaxHeld == 2
MaxDepth == 2
MaxBuckets == 2
MaxOps == 3
MaxInternOps == 4
MaxFormatOps == 2
MaxOwnedOps == 3
MaxCollOps == 3
MaxTreeOps == 4
MaxNumerator == 5
Denominator == 2

\* Two Interpreters: enough for every statement about "another" Interpreter.
Interpreters == {1, 2}

ValidNames == {<<"a">>, <<"b">>}
SpaceNames == {<<"a", " ">>}
AllNames == ValidNames \cup SpaceNames

\* A Weak::upgrade that fails.
NoTable == 0
\* The String of an Arc whose strong count reached zero.
Freed == <<"freed">>

NoSymbol == [kind |-> "None"]
NoProbe == [fn |-> "none"]
\* No call is in progress, no guard is held.
Idle == [pc |-> "idle", guard |-> "none"]
Panic(msg) == [kind |-> "Panic", msg |-> msg]
IsSymbol(x) == x.kind \in {"Global", "Local"}
IsPanic(x) == x.kind = "Panic"

Min(S) == CHOOSE x \in S : \A y \in S : x <= y
Range(f) == {f[i] : i \in DOMAIN f}
IsPrefix(s, t) == Len(s) <= Len(t) /\ \A i \in 1..Len(s) : s[i] = t[i]

(***************************************************************************)
(* Symbol values.                                                          *)
(***************************************************************************)
\* name.contains(" ")
Contains(name, c) == \E i \in DOMAIN name : name[i] = c

MkGlobalOtherTable(name_a, rt) ==
    [kind |-> "Global", name |-> name_a,
     symbol_table |-> CHOOSE i \in Interpreters : i # rt]

\* Symbol::Global(GlobalSymbol { name, symbol_table: Arc::downgrade(..) })
MkGlobal(name_a, rt) ==
    [kind |-> "Global", name |-> name_a, symbol_table |-> rt]

\* Symbol::Local(LocalSymbol { name, namespace: Box::new(namespace), symbol_table })
MkLocal(name_a, namespace, rt) ==
    [kind |-> "Local", name |-> name_a, namespace |-> namespace, symbol_table |-> rt]

RECURSIVE Depth(_)
Depth(s) == IF s.kind = "Local" THEN 1 + Depth(s.namespace) ELSE 1

\* The Arc<String>s a Symbol holds strongly: its name and those of its namespace chain.
RECURSIVE SymIds(_)
SymIds(s) ==
    IF s.kind = "Local" THEN {s.name} \cup SymIds(s.namespace)
    ELSE IF s.kind = "Global" THEN {s.name}
    ELSE {}

\* Symbol::get_name, reading the String behind the Arc.
GetName(s, h) == h[s.name]

\* A Symbol and the Symbols of its namespace chain.
RECURSIVE SubSymbols(_)
SubSymbols(s) ==
    IF s.kind = "Local" THEN {s} \cup SubSymbols(s.namespace)
    ELSE IF s.kind = "Global" THEN {s}
    ELSE {}

\* Every Symbol in existence: those the caller holds, the namespace keys of
\* the tables, and the namespaces boxed inside them.
Outstanding ==
    UNION {SubSymbols(s) : s \in held}
        \cup UNION {UNION {SubSymbols(symbols[i][j].key) : j \in DOMAIN symbols[i]} :
                       i \in DOMAIN symbols}

StrongRefsOwnTable(s) == {s.symbol_table}

\* The tables a Symbol keeps alive: its symbol_table field is a Weak, so none.
StrongRefs(s) == {}

\* Arc::strong_count of the table of t: the Interpreter's Arc and those of Symbols.
StrongCount(t) ==
    (IF alive[t] THEN 1 ELSE 0) + Cardinality({s \in Outstanding : t \in StrongRefs(s)})

UpgradeNever(t) == NoTable

\* Weak::upgrade: the table, or None once its last strong reference is gone.
Upgrade(t) == IF t # NoTable /\ (alive[t] \/ StrongCount(t) > 0) THEN t ELSE NoTable

\* self.symbol_table.upgrade().map(|s| other.symbol_table.upgrade()
\*     .map(|o_s| Arc::ptr_eq(&s, &o_s)).unwrap_or(false)).unwrap_or(false)
SameLiveTable(a, b) ==
    LET s == Upgrade(a.symbol_table)
        o_s == Upgrade(b.symbol_table)
    IN  IF s = NoTable THEN FALSE
        ELSE IF o_s = NoTable THEN FALSE
        ELSE s = o_s

RECURSIVE SymEq(_, _, _)

GlobalSymbolEqNameOnly(a, b, h) == h[a.name] = h[b.name]

GlobalSymbolEqWeakPtr(a, b, h) ==
    h[a.name] = h[b.name] /\ a.symbol_table = b.symbol_table

\* impl PartialEq for GlobalSymbol
GlobalSymbolEq(a, b, h) ==
    h[a.name] = h[b.name] /\ SameLiveTable(a, b)

LocalSymbolEqNoNamespace(a, b, h) ==
    h[a.name] = h[b.name] /\ SameLiveTable(a, b)

\* impl PartialEq for LocalSymbol
LocalSymbolEq(a, b, h) ==
    /\ h[a.name] = h[b.name]
    /\ SymEq(a.namespace, b.namespace, h)
    /\ SameLiveTable(a, b)

\* #[derive(PartialEq)] on enum Symbol
SymEq(a, b, h) ==
    /\ a.kind = b.kind
    /\ IF a.kind = "Global" THEN GlobalSymbolEq(a, b, h) ELSE LocalSymbolEq(a, b, h)

\* The characters of the names, in the order of their code points.
Chars == <<" ", "a", "b">>
CharRank(c) == CHOOSE i \in DOMAIN Chars : Chars[i] = c

Ordering(x, y) == IF x < y THEN "Less" ELSE IF x > y THEN "Greater" ELSE "Equal"

\* impl Ord for String: the first differing character decides, then the length
RECURSIVE StrCmpFrom(_, _, _)
StrCmpFrom(x, y, i) ==
    IF i > Len(x) \/ i > Len(y) THEN Ordering(Len(x), Len(y))
    ELSE IF x[i] # y[i] THEN Ordering(CharRank(x[i]), CharRank(y[i]))
    ELSE StrCmpFrom(x, y, i + 1)

StrCmp(x, y) == StrCmpFrom(x, y, 1)

\* Option<*const SymbolTable>: addr is NoTable for None, which is below every Some
Ptr(addr) == [kind |-> "Ptr", addr |-> addr]

TablePtrUnchecked(s, p) == Ptr(Upgrade(s.symbol_table))

\* .symbol_table.upgrade().map(|t| &*(t.read().unwrap()) as *const SymbolTable):
\* None (below every Some), the address of the table, or the panic of unwrap()
TablePtr(s, p) ==
    LET t == Upgrade(s.symbol_table)
    IN  IF t = NoTable THEN Ptr(NoTable)
        ELSE IF p[t] THEN Panic("lock poisoned")
        ELSE Ptr(t)

\* #[derive(Ord)] on enum Symbol { Local, Global }: the variant index
VariantIndex(s) == IF s.kind = "Local" THEN 0 ELSE 1

RECURSIVE SymCmp(_, _, _, _)

\* The comparisons give "Less", "Equal" or "Greater", or "Panic" when an
\* unwrap() of a poisoned lock panics.
\* impl Ord for GlobalSymbol: both tuples are built, then compared
GlobalSymbolCmp(a, b, h, p) ==
    LET pa == TablePtr(a, p)
        pb == TablePtr(b, p)
    IN  IF IsPanic(pa) \/ IsPanic(pb) THEN "Panic"
        ELSE IF StrCmp(h[a.name], h[b.name]) # "Equal" THEN StrCmp(h[a.name], h[b.name])
        ELSE Ordering(pa.addr, pb.addr)

\* impl Ord for LocalSymbol
LocalSymbolCmp(a, b, h, p) ==
    LET pa == TablePtr(a, p)
        pb == TablePtr(b, p)
    IN  IF IsPanic(pa) \/ IsPanic(pb) THEN "Panic"
        ELSE IF StrCmp(h[a.name], h[b.name]) # "Equal" THEN StrCmp(h[a.name], h[b.name])
        ELSE LET ns == SymCmp(a.namespace, b.namespace, h, p)
             IN  IF ns # "Equal" THEN ns ELSE Ordering(pa.addr, pb.addr)

\* #[derive(Ord)] on enum Symbol
SymCmp(a, b, h, p) ==
    IF a.kind # b.kind THEN Ordering(VariantIndex(a), VariantIndex(b))
    ELSE IF a.kind = "Global" THEN GlobalSymbolCmp(a, b, h, p)
    ELSE LocalSymbolCmp(a, b, h, p)

\* impl Hash for GlobalSymbol, LocalSymbol under #[derive(Hash)] on Symbol:
\* what is fed to the Hasher, the table pointer only while the table lives
RECURSIVE SymHash(_, _)
SymHash(s, h) ==
    <<[variant |-> VariantIndex(s)], [name |-> h[s.name]]>>
        \o (IF s.kind = "Local" THEN SymHash(s.namespace, h) ELSE <<>>)
        \o (IF Upgrade(s.symbol_table) = NoTable THEN <<>>
            ELSE <<[table |-> Upgrade(s.symbol_table)]>>)

\* enum SymbolFormat
FormatGlobal(name) == [kind |-> "Global", name |-> name]
FormatLocal(name, namespace) == [kind |-> "Local", name |-> name, namespace |-> namespace]
FormatAnonymous == [kind |-> "Anonymous"]

RECURSIVE FmtQuoteEach(_)
FmtQuoteEach(f) ==
    IF f.kind = "Global" THEN <<"'">> \o f.name
    ELSE IF f.kind = "Local" THEN FmtQuoteEach(f.namespace) \o <<":", ":", "'">> \o f.name
    ELSE <<"'", "_">>

\* SymbolFormat::fmt_
RECURSIVE Fmt(_)
Fmt(f) ==
    IF f.kind = "Global" THEN <<"'">> \o f.name
    ELSE IF f.kind = "Local" THEN Fmt(f.namespace) \o <<":", ":">> \o f.name
    ELSE <<"'", "_">>

\* impl From<&Symbol> for SymbolFormat
RECURSIVE SymbolFormatFrom(_, _)
SymbolFormatFrom(s, h) ==
    IF s.kind = "Global" THEN FormatGlobal(h[s.name])
    ELSE FormatLocal(h[s.name], SymbolFormatFrom(s.namespace, h))

\* impl Display for Symbol
Display(s, h) == Fmt(SymbolFormatFrom(s, h))

(***************************************************************************)
(* Owned symbols.                                                          *)
(***************************************************************************)
\* OwnedSymbol::Global(GlobalOwnedSymbol { name })
OwnedGlobal(name) == [kind |-> "Global", name |-> name]
\* OwnedSymbol::Local(LocalOwnedSymbol { name, namespace })
OwnedLocal(name, namespace) == [kind |-> "Local", name |-> name, namespace |-> namespace]

\* OwnedSymbol::new_global
OwnedNewGlobal(name) ==
    IF Contains(name, " ") THEN Panic("validation") ELSE OwnedGlobal(name)

OwnedFromKeepsTable(s, h) ==
    [kind |-> "Global", name |-> GetName(s, h), symbol_table |-> s.symbol_table]

\* impl From<Symbol> for OwnedSymbol
OwnedFrom(s, h) == OwnedNewGlobal(GetName(s, h))

\* impl From<&OwnedSymbol> for SymbolFormat
RECURSIVE OwnedSymbolFormatFrom(_)
OwnedSymbolFormatFrom(o) ==
    IF o.kind = "Global" THEN FormatGlobal(o.name)
    ELSE FormatLocal(o.name, OwnedSymbolFormatFrom(o.namespace))

\* impl Display for OwnedSymbol
OwnedDisplay(o) == Fmt(OwnedSymbolFormatFrom(o))

\* #[derive(PartialEq)] on OwnedSymbol, LocalOwnedSymbol, GlobalOwnedSymbol
RECURSIVE OwnedSymEq(_, _)
OwnedSymEq(a, b) ==
    /\ a.kind = b.kind
    /\ a.name = b.name
    /\ a.kind = "Local" => OwnedSymEq(a.namespace, b.namespace)

\* #[derive(Ord)] on enum OwnedSymbol { Local, Global }; LocalOwnedSymbol { name, namespace }
RECURSIVE OwnedSymCmp(_, _)
OwnedSymCmp(a, b) ==
    IF a.kind # b.kind THEN Ordering(VariantIndex(a), VariantIndex(b))
    ELSE IF StrCmp(a.name, b.name) # "Equal" THEN StrCmp(a.name, b.name)
    ELSE IF a.kind = "Global" THEN "Equal"
    ELSE OwnedSymCmp(a.namespace, b.namespace)

RECURSIVE OwnedDepth(_)
OwnedDepth(o) == IF o.kind = "Local" THEN 1 + OwnedDepth(o.namespace) ELSE 1

\* Owned symbols of a given nesting depth, as OwnedSymbol::new_global and
\* OwnedSymbol::new_local build them (both reject a name with a space).
RECURSIVE OwnedOfDepth(_)
OwnedOfDepth(d) ==
    IF d = 1 THEN {OwnedGlobal(n) : n \in ValidNames}
    ELSE {OwnedLocal(n, ns) : n \in ValidNames, ns \in OwnedOfDepth(d - 1)}

OwnedUniverse == UNION {OwnedOfDepth(d) : d \in 1..MaxDepth}

(***************************************************************************)
(* Number { val: f64 }.  A val is the fraction k / Denominator, written as *)
(* its numerator k; every val of the model is finite and far inside the    *)
(* range of i64.                                                           *)
(***************************************************************************)
NumberUniverse == (0 - MaxNumerator)..MaxNumerator

TruncFloor(k) == k \div Denominator

\* self.val as i64: the fraction is dropped, rounding toward zero
Trunc(k) == IF k >= 0 THEN k \div Denominator ELSE 0 - ((0 - k) \div Denominator)

\* impl PartialEq for Number
NumberEq(a, b) == Trunc(a) = Trunc(b)

\* impl Hash for Number: the i64 fed to the Hasher
NumberHash(a) == Trunc(a)

NumberCmpRaw(a, b) == Ordering(a, b)

\* impl Ord for Number
NumberCmp(a, b) == Ordering(Trunc(a), Trunc(b))

\* #[derive(PartialOrd)] on Number: partial_cmp of the f64 fields
NumberPartialCmp(a, b) == Ordering(a, b)

\* The operators <, <=, > and >= are those of PartialOrd.
NumberLt(a, b) == NumberPartialCmp(a, b) = "Less"
NumberLe(a, b) == NumberPartialCmp(a, b) \in {"Less", "Equal"}
NumberGt(a, b) == NumberPartialCmp(a, b) = "Greater"
NumberGe(a, b) == NumberPartialCmp(a, b) \in {"Greater", "Equal"}

(***************************************************************************)
(* Values: the String and Symbol variants of Value and OwnedValue, and     *)
(* AValue over the two.                                                    *)
(***************************************************************************)
ValueString(str) == [variant |-> "String", val |-> str]
ValueSymbol(s) == [variant |-> "Symbol", val |-> s]
OwnedValueString(str) == [variant |-> "String", val |-> str]
OwnedValueSymbol(o) == [variant |-> "Symbol", val |-> o]

AValueA(v) == [variant |-> "A", val |-> v]
AValueOwned(ov) == [variant |-> "Owned", val |-> ov]

\* impl From<Value> for OwnedValue
OwnedValueFrom(v, h) ==
    IF v.variant = "Symbol" THEN OwnedValueSymbol(OwnedFrom(v.val, h))
    ELSE OwnedValueString(v.val)

\* #[derive(Ord)] on enum OwnedValue { Number, String, Symbol, Array, Object }
OwnedValueVariantIndex(ov) == IF ov.variant = "String" THEN 1 ELSE 2

\* #[derive(PartialEq)] on OwnedValue
OwnedValueEq(a, b) ==
    /\ a.variant = b.variant
    /\ IF a.variant = "Symbol" THEN OwnedSymEq(a.val, b.val) ELSE a.val = b.val

\* #[derive(Ord)] on OwnedValue
OwnedValueCmp(a, b) ==
    IF a.variant # b.variant
    THEN Ordering(OwnedValueVariantIndex(a), OwnedValueVariantIndex(b))
    ELSE IF a.variant = "Symbol" THEN OwnedSymCmp(a.val, b.val)
    ELSE StrCmp(a.val, b.val)

\* impl Display for OwnedValue
OwnedValueDisplay(ov) ==
    IF ov.variant = "Symbol" THEN OwnedDisplay(ov.val)
    ELSE <<"\"">> \o ov.val \o <<"\"">>

\* AValue::into_owned
AValueIntoOwned(av, h) ==
    IF av.variant = "Owned" THEN av.val ELSE OwnedValueFrom(av.val, h)

\* AValue::into_unowned: unimplemented!()
AValueIntoUnowned(av, rt) == Panic("not yet implemented")

(***************************************************************************)
(* Array(im::Vector<Value>) and Object(im::HashMap<Value, Value>).  A      *)
(* handle is the number of a node of coll.store; clones share the node,    *)
(* and a _mut call copies a shared node before it writes (Arc::make_mut).  *)
(***************************************************************************)
ValueNumber(k) == [variant |-> "Number", val |-> k]
ValueObject(entries) == [variant |-> "Object", val |-> entries]

\* #[derive(PartialEq)] on Value
ValueEq(a, b) ==
    /\ a.variant = b.variant
    /\ IF a.variant = "Number" THEN NumberEq(a.val, b.val)
       ELSE IF a.variant = "Symbol" THEN SymEq(a.val, b.val, heap)
       ELSE a.val = b.val

\* #[derive(Ord)] on enum Value { Number, String, Symbol, Array, Object }
ValueVariantIndex(v) ==
    IF v.variant = "Number" THEN 0
    ELSE IF v.variant = "String" THEN 1
    ELSE IF v.variant = "Symbol" THEN 2
    ELSE IF v.variant = "Array" THEN 3
    ELSE 4

\* #[derive(Ord)] on Value; the Objects compared are sequences of entries
ValueCmp(a, b) ==
    IF a.variant # b.variant THEN Ordering(ValueVariantIndex(a), ValueVariantIndex(b))
    ELSE IF a.variant = "Number" THEN NumberCmp(a.val, b.val)
    ELSE IF a.variant = "String" THEN StrCmp(a.val, b.val)
    ELSE IF a.variant = "Symbol" THEN SymCmp(a.val, b.val, heap, poisoned)
    ELSE Ordering(Len(a.val), Len(b.val))

\* get_null(): Value::Object(Object::empty())
GetNull == ValueObject(<<>>)

\* The Values stored in the collections, and the keys of the Objects.
StoredValues == {ValueString(<<"a">>), ValueNumber(0), GetNull}
Keys == {ValueString(n) : n \in ValidNames}

NoHandle == 0

\* Array::empty() and Object::empty(), no clone taken, no update made.
EmptyCollections ==
    [store |-> << <<>>, <<>> >>,
     arr |-> 1, arr_clone |-> NoHandle, arr_new |-> NoHandle,
     obj |-> 2, obj_clone |-> NoHandle, obj_new |-> NoHandle,
     last |-> [op |-> "none"]]

Handles(co) == <<co.arr, co.arr_clone, co.arr_new, co.obj, co.obj_clone, co.obj_new>>

\* Arc::strong_count of a node
RefCount(co, id) == Cardinality({i \in DOMAIN Handles(co) : Handles(co)[i] = id})

\* The node behind a handle.
Node(co, h) == co.store[h]

ArrayGetOffByOne(items, index) ==
    IF index + 1 < Len(items) THEN items[index + 1] ELSE GetNull

\* Array::get: self.0.get(index).unwrap_or_else(|| get_null())
ArrayGet(items, index) ==
    IF index < Len(items) THEN items[index + 1] ELSE GetNull

\* im::HashMap lookup: the entry whose key is == to k, 0 for None
FindEntry(entries, k) ==
    LET hits == {i \in DOMAIN entries : ValueEq(entries[i].key, k)}
    IN  IF hits = {} THEN 0 ELSE Min(hits)

\* Object::get: self.0.get(key).unwrap_or_else(|| get_null())
ObjectGet(entries, k) ==
    IF FindEntry(entries, k) = 0 THEN GetNull ELSE entries[FindEntry(entries, k)].value

\* im::Vector::push_back on the items of a node
VectorPushBack(items, v) == Append(items, v)

\* im::HashMap::set on the entries of a node
HashMapSet(entries, k, v) ==
    IF FindEntry(entries, k) = 0 THEN Append(entries, [key |-> k, value |-> v])
    ELSE [entries EXCEPT ![FindEntry(entries, k)].value = v]

\* BTreeMap::insert: the entries stay sorted by key, and a key that compares
\* Equal to the new one keeps its place and takes the new value
BTreeInsert(tree, k, v) ==
    LET same == {i \in DOMAIN tree : ValueCmp(tree[i].key, k) = "Equal"}
        below == {i \in DOMAIN tree : ValueCmp(tree[i].key, k) = "Less"}
    IN  IF same # {} THEN [tree EXCEPT ![Min(same)].value = v]
        ELSE SubSeq(tree, 1, Cardinality(below)) \o <<[key |-> k, value |-> v]>>
                 \o SubSeq(tree, Cardinality(below) + 1, Len(tree))

\* .into_iter().map(..).collect() into a BTreeMap, entry by entry
RECURSIVE CollectBTree(_, _)
CollectBTree(entries, tree) ==
    IF entries = <<>> THEN tree
    ELSE CollectBTree(Tail(entries), BTreeInsert(tree, Head(entries).key, Head(entries).value))

\* impl From<Object> for BTreeMap<Value, Value>: a comparison of two keys that
\* panics ends the conversion
BTreeFromObject(entries) ==
    IF \E i, j \in DOMAIN entries : ValueCmp(entries[i].key, entries[j].key) = "Panic"
    THEN Panic("lock poisoned")
    ELSE [kind |-> "BTreeMap", entries |-> CollectBTree(entries, <<>>)]

\* HashMap::from(BTreeMap), entry by entry
RECURSIVE CollectHashMap(_, _)
CollectHashMap(tree, entries) ==
    IF tree = <<>> THEN entries
    ELSE CollectHashMap(Tail(tree), HashMapSet(entries, Head(tree).key, Head(tree).value))

\* impl From<BTreeMap<Value, Value>> for Object
ObjectFromBTree(tree) == [kind |-> "Object", entries |-> CollectHashMap(tree, <<>>)]

\* Array::push_back(&self, value) -> Self: a new node, the handle arr_new on it
ArrayPushBack(co, v) ==
    [co EXCEPT !.store = Append(@, VectorPushBack(Node(co, co.arr), v)),
               !.arr_new = Len(co.store) + 1]

ArrayPushBackMutInPlace(co, v) ==
    [co EXCEPT !.store[co.arr] = VectorPushBack(@, v)]

\* Array::push_back_mut(&mut self, value): in place when the node is not shared
ArrayPushBackMut(co, v) ==
    IF RefCount(co, co.arr) = 1
    THEN [co EXCEPT !.store[co.arr] = VectorPushBack(@, v)]
    ELSE [co EXCEPT !.store = Append(@, VectorPushBack(Node(co, co.arr), v)),
                    !.arr = Len(co.store) + 1]

\* Object::set(&self, k, v) -> Self
ObjectSet(co, k, v) ==
    [co EXCEPT !.store = Append(@, HashMapSet(Node(co, co.obj), k, v)),
               !.obj_new = Len(co.store) + 1]

\* Object::set_mut(&mut self, k, v)
ObjectSetMut(co, k, v) ==
    IF RefCount(co, co.obj) = 1
    THEN [co EXCEPT !.store[co.obj] = HashMapSet(@, k, v)]
    ELSE [co EXCEPT !.store = Append(@, HashMapSet(Node(co, co.obj), k, v)),
                    !.obj = Len(co.store) + 1]

(***************************************************************************)
(* Comparison of AValues, by content and by variant.                       *)
(***************************************************************************)
AValueEqSameVariant(a, b, h) ==
    a.variant = b.variant /\ OwnedValueEq(AValueIntoOwned(a, h), AValueIntoOwned(b, h))

\* impl PartialEq for AValue: both sides are converted to OwnedValues
AValueEq(a, b, h) == OwnedValueEq(AValueIntoOwned(a, h), AValueIntoOwned(b, h))

\* AValue::cmp_variants: VariantCmpAValue::A(&val) or VariantCmpAValue::Owned(&val)
CmpVariants(av) == [view |-> av.variant, ref |-> av.val]

\* #[derive(PartialEq)] on VariantCmpAValue
VariantCmpEq(x, y) ==
    /\ x.view = y.view
    /\ IF x.view = "A" THEN ValueEq(x.ref, y.ref) ELSE OwnedValueEq(x.ref, y.ref)

(***************************************************************************)
(* The table operations, as functions of the world w =                     *)
(*   [g: global_symbols, s: symbols, p: poisoned, h: heap].                *)
(* Each returns [w: the world after, res: Symbol or Panic, locks: the lock *)
(* acquisitions of the call in order].                                     *)
(***************************************************************************)
World == [g |-> global_symbols, s |-> symbols, p |-> poisoned, h |-> heap]

Outcome(w, res, locks) == [w |-> w, res |-> res, locks |-> locks]

FindNever(list, name, h) == 0

\* .iter().find(|n| ***n == name): position of the first entry with that content, 0 for None
Find(list, name, h) ==
    LET hits == {i \in DOMAIN list : h[list[i]] = name}
    IN  IF hits = {} THEN 0 ELSE Min(hits)

\* HashMap lookup of a Symbol key: the entry whose key is == to ns, 0 for None
FindKey(entries, ns, h) ==
    LET hits == {i \in DOMAIN entries : SymEq(entries[i].key, ns, h)}
    IN  IF hits = {} THEN 0 ELSE Min(hits)

EntryInsertReset(entries, ns, h) ==
    LET idx == FindKey(entries, ns, h)
    IN  IF idx = 0 THEN Append(entries, [key |-> ns, bucket |-> <<>>])
        ELSE [entries EXCEPT ![idx].bucket = <<>>]

\* .symbols.entry(namespace.clone()).or_insert_with(|| vec![])
EntryOrInsert(entries, ns, h) ==
    IF FindKey(entries, ns, h) = 0
    THEN Append(entries, [key |-> ns, bucket |-> <<>>])
    ELSE entries

LookupLockWrite(op) == "write"

\* The lock the first statement of a call takes: .read() in new_global,
\* .write() in new_local
LookupLock(op) == IF op = "new_global" THEN "read" ELSE "write"

NewGlobalSharedList(w, name, rt) ==
    IF Contains(name, " ") THEN Outcome(w, Panic("validation"), <<>>)
    ELSE IF w.p[rt] THEN Outcome(w, Panic("lock poisoned"), <<LookupLock("new_global")>>)
    ELSE
        LET found == Find(w.g[rt], name, w.h)
        IN  IF found # 0
            THEN Outcome(w, MkGlobal(w.g[rt][found], rt), <<LookupLock("new_global")>>)
            ELSE
                LET name_a == Len(w.h) + 1
                    w2 == [w EXCEPT !.h = Append(w.h, name),
                                    !.g = [i \in DOMAIN w.g |-> Append(w.g[i], name_a)]]
                IN  Outcome(w2, MkGlobal(name_a, rt), <<LookupLock("new_global"), "write">>)

\* Symbol::new_global
NewGlobal(w, name, rt) ==
    IF Contains(name, " ") THEN Outcome(w, Panic("validation"), <<>>)
    ELSE IF w.p[rt] THEN Outcome(w, Panic("lock poisoned"), <<LookupLock("new_global")>>)
    ELSE
        LET found == Find(w.g[rt], name, w.h)
        IN  IF found # 0
            THEN Outcome(w, MkGlobal(w.g[rt][found], rt), <<LookupLock("new_global")>>)
            ELSE
                LET name_a == Len(w.h) + 1
                    w2 == [w EXCEPT !.h = Append(w.h, name),
                                    !.g[rt] = Append(w.g[rt], name_a)]
                IN  Outcome(w2, MkGlobal(name_a, rt), <<LookupLock("new_global"), "write">>)

\* Symbol::new_local
NewLocal(w, name, namespace, rt) ==
    IF Contains(name, " ") THEN Outcome(w, Panic("validation"), <<>>)
    ELSE IF w.p[rt] THEN Outcome(w, Panic("lock poisoned"), <<LookupLock("new_local")>>)
    ELSE
        LET s1 == EntryOrInsert(w.s[rt], namespace, w.h)
            idx == FindKey(w.s[rt], namespace, w.h)
            bucket == IF idx = 0 THEN <<>> ELSE s1[idx].bucket
            found == Find(bucket, name, w.h)
            w1 == [w EXCEPT !.s[rt] = s1]
        IN  IF found # 0
            THEN Outcome(w1, MkLocal(bucket[found], namespace, rt), <<LookupLock("new_local")>>)
            ELSE
                \* .get_mut(&namespace).expect(..): a panic here unwinds through the write guard
                LET idx2 == FindKey(s1, namespace, w.h)
                    name_a == Len(w.h) + 1
                IN  IF idx2 = 0
                    THEN Outcome([w1 EXCEPT !.p[rt] = TRUE],
                                 Panic("namespace lookup"), <<LookupLock("new_local"), "write">>)
                    ELSE Outcome([w1 EXCEPT !.h = Append(w.h, name),
                                            !.s[rt][idx2].bucket = Append(s1[idx2].bucket, name_a)],
                                 MkLocal(name_a, namespace, rt),
                                 <<LookupLock("new_local"), "write">>)

FromOwnedFlat(w, val, i) == NewGlobal(w, val.name, i)

\* impl From<(&OwnedSymbol, &mut Interpreter)> for Symbol
RECURSIVE FromOwned(_, _, _)
FromOwned(w, val, i) ==
    IF val.kind = "Global" THEN NewGlobal(w, val.name, i)
    ELSE
        LET ns == FromOwned(w, val.namespace, i)
        IN  IF IsPanic(ns.res) THEN ns
            ELSE LET r == NewLocal(ns.w, val.name, ns.res, i)
                 IN  Outcome(r.w, r.res, ns.locks \o r.locks)

(***************************************************************************)
(* The string heap: a String is freed when its last Arc is dropped.        *)
(***************************************************************************)
TableIds(g, s) ==
    Range(g) \cup UNION {Range(e.bucket) \cup SymIds(e.key) : e \in Range(s)}

\* Ids still referenced by the caller's Symbols and by the tables of live Interpreters.
Referenced(heldSet, al, g, s) ==
    UNION {SymIds(x) : x \in heldSet}
        \cup UNION {TableIds(g[i], s[i]) : i \in {j \in Interpreters : al[j]}}

ReleaseUnconditionally(h, dropped, referenced) ==
    [id \in DOMAIN h |-> IF id \in dropped THEN Freed ELSE h[id]]

\* Drop of the Arc<String>s in `dropped`: those with no other strong reference are freed.
Release(h, dropped, referenced) ==
    [id \in DOMAIN h |-> IF id \in dropped /\ id \notin referenced THEN Freed ELSE h[id]]

(***************************************************************************)
(* Actions.  `budget` is the number of calls the run may make.             *)
(***************************************************************************)
Call(op, rt, name, namespace, owned, source, out) ==
    [op |-> op, rt |-> rt, name |-> name, namespace |-> namespace, owned |-> owned,
     source |-> source, res |-> out.res, locks |-> out.locks]

NoCall == [op |-> "init", rt |-> 0, name |-> <<>>, namespace |-> NoSymbol, owned |-> NoSymbol,
           source |-> NoSymbol, res |-> NoSymbol, locks |-> <<>>]

\* A call on the symbol API; it applies no pure function of the value layer.
Step(budget) ==
    /\ steps < budget
    /\ steps' = steps + 1
    /\ call.pc = "idle"
    /\ UNCHANGED <<probe, coll, call>>

\* The caller keeps the Symbol a call returns while it has room for it.
Keeps(res) == IsSymbol(res) /\ Cardinality(held \cup {res}) <= MaxHeld

Install(out, rt) ==
    /\ \A i \in Interpreters : Len(out.w.s[i]) <= MaxBuckets
    /\ global_symbols' = out.w.g
    /\ symbols' = out.w.s
    /\ poisoned' = out.w.p
    /\ heap' = out.w.h
    /\ held' = IF Keeps(out.res) THEN held \cup {out.res} ELSE held
    /\ rejected' = IF out.res = Panic("validation")
                   THEN [rejected EXCEPT ![rt] = TRUE] ELSE rejected
    /\ UNCHANGED alive

InitSymbols ==
    /\ alive = [i \in Interpreters |-> TRUE]
    /\ poisoned = [i \in Interpreters |-> FALSE]
    /\ global_symbols = [i \in Interpreters |-> <<>>]
    /\ symbols = [i \in Interpreters |-> <<>>]
    /\ heap = <<>>
    /\ held = {}
    /\ lastOp = NoCall
    /\ rejected = [i \in Interpreters |-> FALSE]
    /\ steps = 0

Init ==
    /\ InitSymbols
    /\ probe = NoProbe
    /\ coll = EmptyCollections
    /\ call = Idle

CallNewGlobal(name, rt, budget) ==
    /\ Step(budget)
    /\ alive[rt]
    /\ LET out == NewGlobal(World, name, rt)
       IN  /\ Install(out, rt)
           /\ lastOp' = Call("new_global", rt, name, NoSymbol, NoSymbol, NoSymbol, out)

CallNewLocal(name, namespace, rt, budget) ==
    /\ Step(budget)
    /\ alive[rt]
    /\ Depth(namespace) < MaxDepth
    /\ LET out == NewLocal(World, name, namespace, rt)
       IN  /\ Install(out, rt)
           /\ lastOp' = Call("new_local", rt, name, namespace, NoSymbol, NoSymbol, out)

\* Symbol::from_owned
CallFromOwned(owned, rt, budget) ==
    /\ Step(budget)
    /\ alive[rt]
    /\ LET out == FromOwned(World, owned, rt)
       IN  /\ Install(out, rt)
           /\ lastOp' = Call("from_owned", rt, <<>>, NoSymbol, owned, NoSymbol, out)

\* Symbol::from_owned(&OwnedSymbol::from(s.clone()), rt)
CallRoundTrip(s, rt, budget) ==
    /\ Step(budget)
    /\ alive[rt]
    /\ LET owned == OwnedFrom(s, heap)
           out == FromOwned(World, owned, rt)
       IN  /\ ~IsPanic(owned)
           /\ Install(out, rt)
           /\ lastOp' = Call("round_trip", rt, <<>>, NoSymbol, owned, s, out)

\* The Interpreter goes out of scope: its Arc is dropped, and with the last
\* strong reference the table and its lock are dropped.
DropInterpreter(rt, budget) ==
    /\ Step(budget)
    /\ alive[rt]
    /\ alive' = [alive EXCEPT ![rt] = FALSE]
    /\ LET last == StrongCount(rt) = 1
       IN  /\ global_symbols' = IF last THEN [global_symbols EXCEPT ![rt] = <<>>]
                                ELSE global_symbols
           /\ symbols' = IF last THEN [symbols EXCEPT ![rt] = <<>>] ELSE symbols
           /\ poisoned' = IF last THEN [poisoned EXCEPT ![rt] = FALSE] ELSE poisoned
    /\ heap' = Release(heap, TableIds(global_symbols[rt], symbols[rt]),
                       Referenced(held, alive', global_symbols', symbols'))
    /\ lastOp' = [NoCall EXCEPT !.op = "drop", !.rt = rt]
    /\ UNCHANGED <<held, rejected>>

\* A Symbol held by the caller goes out of scope.
DropSymbol(s, budget) ==
    /\ Step(budget)
    /\ held' = held \ {s}
    /\ heap' = Release(heap, SymIds(s), Referenced(held', alive, global_symbols, symbols))
    /\ lastOp' = [NoCall EXCEPT !.op = "drop_symbol", !.source = s]
    /\ UNCHANGED <<alive, poisoned, global_symbols, symbols, rejected>>

Next ==
    \/ \E name \in AllNames, rt \in Interpreters : CallNewGlobal(name, rt, MaxOps)
    \/ \E name \in AllNames, namespace \in held, rt \in Interpreters :
          CallNewLocal(name, namespace, rt, MaxOps)
    \/ \E owned \in OwnedUniverse, rt \in Interpreters : CallFromOwned(owned, rt, MaxOps)
    \/ \E s \in held, rt \in Interpreters : CallRoundTrip(s, rt, MaxOps)
    \/ \E rt \in Interpreters : DropInterpreter(rt, MaxOps)
    \/ \E s \in held : DropSymbol(s, MaxOps)

Spec == Init /\ [][Next]_vars

\* Runs of new_global, new_local and Interpreter drops only, one call longer.
NextIntern ==
    \/ \E name \in AllNames, rt \in Interpreters : CallNewGlobal(name, rt, MaxInternOps)
    \/ \E name \in AllNames, namespace \in held, rt \in Interpreters :
          CallNewLocal(name, namespace, rt, MaxInternOps)
    \/ \E rt \in Interpreters : DropInterpreter(rt, MaxInternOps)

SpecIntern == Init /\ [][NextIntern]_vars

\* The names of a chain, root first; the anonymous root has the name "_".
RECURSIVE Chain(_)
Chain(f) ==
    IF f.kind = "Local" THEN Append(Chain(f.namespace), f.name)
    ELSE IF f.kind = "Global" THEN <<f.name>>
    ELSE << <<"_">> >>

symbolVars ==
    <<alive, poisoned, global_symbols, symbols, heap, held, lastOp, rejected, steps, call>>

\* SymbolFormats of a given nesting depth; the root is a Global or Anonymous.
RECURSIVE FormatOfDepth(_)
FormatOfDepth(d) ==
    IF d = 1 THEN {FormatGlobal(n) : n \in ValidNames} \cup {FormatAnonymous}
    ELSE {FormatLocal(n, ns) : n \in ValidNames, ns \in FormatOfDepth(d - 1)}

FormatUniverse == UNION {FormatOfDepth(d) : d \in 1..MaxDepth}

\* SymbolFormat::to_string
ApplyFmt(f) ==
    /\ probe' = [fn |-> "fmt", format |-> f, out |-> Fmt(f)]
    /\ UNCHANGED <<symbolVars, coll>>

\* Symbol::to_string
ToStringSymbol(s) ==
    /\ probe' = [fn |-> "symbol_to_string", symbol |-> s, out |-> Display(s, heap)]
    /\ UNCHANGED <<symbolVars, coll>>

\* OwnedSymbol::to_string
ToStringOwned(o) ==
    /\ probe' = [fn |-> "owned_to_string", owned |-> o, out |-> OwnedDisplay(o)]
    /\ UNCHANGED <<symbolVars, coll>>

\* The Values a caller can build from what it holds.
ValuesHeld == {ValueSymbol(s) : s \in held} \cup {ValueString(n) : n \in ValidNames}
OwnedValues == {OwnedValueSymbol(o) : o \in OwnedUniverse}
                   \cup {OwnedValueString(n) : n \in ValidNames}
AValuesHeld == {AValueA(v) : v \in ValuesHeld} \cup {AValueOwned(ov) : ov \in OwnedValues}

\* OwnedValue::from(value) and AValue::into_owned; the caller keeps the result.
CallIntoOwned(av) ==
    /\ LET out == AValueIntoOwned(av, heap)
       IN  probe' = [fn |-> "into_owned", av |-> av, out |-> out,
                     text |-> OwnedValueDisplay(out)]
    /\ UNCHANGED <<symbolVars, coll>>

\* AValue::into_unowned(self, &mut Interpreter)
CallIntoUnowned(av, rt) ==
    /\ alive[rt]
    /\ probe' = [fn |-> "into_unowned", av |-> av, rt |-> rt,
                  out |-> AValueIntoUnowned(av, rt)]
    /\ UNCHANGED <<symbolVars, coll>>

\* Symbols are minted, Values built on them are converted, Interpreters are dropped.
NextOwned ==
    \/ \E name \in ValidNames, rt \in Interpreters : CallNewGlobal(name, rt, MaxOwnedOps)
    \/ \E name \in ValidNames, namespace \in held, rt \in Interpreters :
          CallNewLocal(name, namespace, rt, MaxOwnedOps)
    \/ \E rt \in Interpreters : DropInterpreter(rt, MaxOwnedOps)
    \/ \E av \in AValuesHeld : CallIntoOwned(av)
    \/ \E av \in AValuesHeld, rt \in Interpreters : CallIntoUnowned(av, rt)

SpecOwned == Init /\ [][NextOwned]_vars

\* Two Numbers built by Number::from.
InitNumber ==
    /\ InitSymbols
    /\ coll = EmptyCollections
    /\ call = Idle
    /\ probe \in {[fn |-> "number_from", a |-> a, b |-> b] : a, b \in NumberUniverse}

\* One comparison or hash of the two Numbers.
ApplyNumber(fn, out) ==
    /\ probe' = [fn |-> fn, a |-> probe.a, b |-> probe.b, out |-> out]
    /\ UNCHANGED <<symbolVars, coll>>

NextNumber ==
    \/ ApplyNumber("number_eq", NumberEq(probe.a, probe.b))
    \/ ApplyNumber("number_cmp", NumberCmp(probe.a, probe.b))
    \/ ApplyNumber("number_hash", <<NumberHash(probe.a), NumberHash(probe.b)>>)
    \/ ApplyNumber("number_lt", NumberLt(probe.a, probe.b))
    \/ ApplyNumber("number_le", NumberLe(probe.a, probe.b))
    \/ ApplyNumber("number_gt", NumberGt(probe.a, probe.b))
    \/ ApplyNumber("number_ge", NumberGe(probe.a, probe.b))

SpecNumber == InitNumber /\ [][NextNumber]_vars

tableVars == <<alive, poisoned, global_symbols, symbols, heap, held, lastOp, rejected, call>>

\* A call that builds or changes a collection.
Update(co, last) ==
    /\ steps < MaxCollOps
    /\ steps' = steps + 1
    /\ coll' = [co EXCEPT !.last = last]
    /\ UNCHANGED <<tableVars, probe>>

\* A call that reads a collection.
Read(last) ==
    /\ coll' = [coll EXCEPT !.last = last]
    /\ UNCHANGED <<symbolVars, probe>>

CallPushBack(v) == Update(ArrayPushBack(coll, v), [op |-> "push_back", value |-> v])
CallPushBackMut(v) == Update(ArrayPushBackMut(coll, v), [op |-> "push_back_mut", value |-> v])
CallSet(k, v) == Update(ObjectSet(coll, k, v), [op |-> "set", key |-> k, value |-> v])
CallSetMut(k, v) == Update(ObjectSetMut(coll, k, v), [op |-> "set_mut", key |-> k, value |-> v])

\* let c = arr.clone(): the clone shares the node
CallCloneArray == Update([coll EXCEPT !.arr_clone = coll.arr], [op |-> "clone_array"])
CallCloneObject == Update([coll EXCEPT !.obj_clone = coll.obj], [op |-> "clone_object"])

CallArrayGet(index) ==
    Read([op |-> "array_get", index |-> index, out |-> ArrayGet(Node(coll, coll.arr), index)])

CallObjectGet(k) ==
    Read([op |-> "object_get", key |-> k, out |-> ObjectGet(Node(coll, coll.obj), k)])

NextCollections ==
    \/ \E v \in StoredValues : CallPushBack(v)
    \/ \E v \in StoredValues : CallPushBackMut(v)
    \/ \E k \in Keys, v \in StoredValues : CallSet(k, v)
    \/ \E k \in Keys, v \in StoredValues : CallSetMut(k, v)
    \/ CallCloneArray
    \/ CallCloneObject
    \/ \E index \in 0..MaxCollOps : CallArrayGet(index)
    \/ \E k \in Keys : CallObjectGet(k)

SpecCollections == Init /\ [][NextCollections]_vars

\* The keys a caller can build from the Symbols it holds, next to one String.
KeysHeld == {ValueString(<<"a">>)} \cup {ValueSymbol(s) : s \in held}
TreeValues == {ValueNumber(0), GetNull}

\* obj.set_mut(k, v) in a run of MaxTreeOps calls
CallSetMutKey(k, v) ==
    /\ steps < MaxTreeOps
    /\ steps' = steps + 1
    /\ coll' = [ObjectSetMut(coll, k, v) EXCEPT
                   !.last = [op |-> "set_mut", key |-> k, value |-> v]]
    /\ UNCHANGED <<tableVars, probe>>

\* let c = obj.clone() in a run of MaxTreeOps calls
CallCloneShared ==
    /\ steps < MaxTreeOps
    /\ steps' = steps + 1
    /\ coll.obj_clone = NoHandle
    /\ coll' = [coll EXCEPT !.obj_clone = coll.obj, !.last = [op |-> "clone_object"]]
    /\ UNCHANGED <<tableVars, probe>>

\* Object::from(BTreeMap::from(obj.clone()))
CallBTreeRoundTrip ==
    LET tree == BTreeFromObject(Node(coll, coll.obj))
    IN  Read([op |-> "btree_round_trip",
              shared |-> RefCount(coll, coll.obj) > 1,
              tree |-> tree,
              out |-> IF IsPanic(tree) THEN tree ELSE ObjectFromBTree(tree.entries)])

\* Objects keyed by Strings and by Symbols of live and dropped Interpreters.
NextTree ==
    \/ \E rt \in Interpreters : CallNewGlobal(<<"a">>, rt, MaxTreeOps)
    \/ \E rt \in Interpreters : DropInterpreter(rt, MaxTreeOps)
    \/ \E k \in KeysHeld, v \in TreeValues : CallSetMutKey(k, v)
    \/ CallCloneShared
    \/ CallBTreeRoundTrip

SpecTree == Init /\ [][NextTree]_vars

\* The AValues a caller can build: each Value it holds, as it is and converted.
AValuesA == {AValueA(v) : v \in ValuesHeld}
AValuesCompared == AValuesA \cup {AValueOwned(OwnedValueFrom(v, heap)) : v \in ValuesHeld}

\* a == b on two AValues; `at` is the number of calls made before it
CallAValueEq(a, b) ==
    /\ probe' = [fn |-> "avalue_eq", a |-> a, b |-> b, at |-> steps,
                  out |-> AValueEq(a, b, heap)]
    /\ UNCHANGED <<symbolVars, coll>>

\* a.cmp_variants() == b.cmp_variants()
CallCmpVariantsEq(a, b) ==
    /\ probe' = [fn |-> "cmp_variants_eq", a |-> a, b |-> b, at |-> steps,
                  out |-> VariantCmpEq(CmpVariants(a), CmpVariants(b))]
    /\ UNCHANGED <<symbolVars, coll>>

\* Symbols are minted, Interpreters dropped, and AValues on the Symbols compared.
NextAValue ==
    \/ \E name \in ValidNames, rt \in Interpreters : CallNewGlobal(name, rt, MaxFormatOps)
    \/ \E name \in ValidNames, namespace \in held, rt \in Interpreters :
          CallNewLocal(name, namespace, rt, MaxFormatOps)
    \/ \E rt \in Interpreters : DropInterpreter(rt, MaxFormatOps)
    \/ \E a \in AValuesA, b \in AValuesCompared : CallAValueEq(a, b)
    \/ \E a \in AValuesA, b \in AValuesCompared : CallCmpVariantsEq(a, b)

SpecAValue == Init /\ [][NextAValue]_vars

\* Symbol::partial_cmp: the same tuples as cmp, compared with partial_cmp;
\* &String, Symbol and Option<*const SymbolTable> are Ord, so every
\* component gives Some of its cmp, and a poisoned lock panics as in cmp.
SymPartialCmp(a, b, h, p) ==
    LET c == SymCmp(a, b, h, p)
    IN  IF c = "Panic" THEN [kind |-> "Panic"] ELSE [kind |-> "Some", val |-> c]

\* Symbol::cmp
CallCmp(a, b) ==
    /\ probe' = [fn |-> "cmp", a |-> a, b |-> b, out |-> SymCmp(a, b, heap, poisoned)]
    /\ UNCHANGED <<symbolVars, coll>>

\* The names and OwnedSymbols of the runs that poison a lock: one valid name
\* at every level, and the name with a space.
PoisonNames == {<<"a">>} \cup SpaceNames
PoisonOwned == {o \in OwnedUniverse : \A i \in DOMAIN Chain(o) : Chain(o)[i] = <<"a">>}

\* Interning calls, Interpreter drops and comparisons of the Symbols held.
NextPoison ==
    \/ \E name \in PoisonNames, rt \in Interpreters : CallNewGlobal(name, rt, MaxInternOps)
    \/ \E name \in PoisonNames, namespace \in held, rt \in Interpreters :
          CallNewLocal(name, namespace, rt, MaxInternOps)
    \/ \E owned \in PoisonOwned, rt \in Interpreters : CallFromOwned(owned, rt, MaxInternOps)
    \/ \E rt \in Interpreters : DropInterpreter(rt, MaxInternOps)
    \/ \E a, b \in held : CallCmp(a, b)

SpecPoison == Init /\ [][NextPoison]_vars

(***************************************************************************)
(* An intern call, statement by statement.  call.pc is the position in the *)
(* body, call.guard the guard of the table lock the call holds, call.todo  *)
(* the names from_owned still has to intern below the Symbol just made.    *)
(* A lock requested while the caller holds a guard of it is never granted. *)
(***************************************************************************)
GuardKept(guard) == guard

\* The guard is a temporary of the statement that took it: it is dropped at
\* the end of that statement.
EndOfStatement(guard) == "none"

\* The table locks that hashing a Symbol key and comparing it with == take:
\* both upgrade the Weak and use the pointer, neither reads the lock.
KeyLocks(s) == {}

Begin(top, rt, owned, name, namespace, todo) ==
    [pc |-> "validate", guard |-> "none", top |-> top, rt |-> rt, owned |-> owned,
     stage |-> IF namespace = NoSymbol THEN "new_global" ELSE "new_local",
     name |-> name, namespace |-> namespace, todo |-> todo,
     name_a |-> 0, locks |-> <<>>, key_locks |-> {}]

\* The caller makes a call: the body starts at its first statement.  The
\* call has room for the namespace buckets it may create.
StartCall(c, budget) ==
    /\ call.pc = "idle"
    /\ steps < budget
    /\ steps' = steps + 1
    /\ alive[c.rt]
    /\ Len(symbols[c.rt]) + Len(c.todo) + (IF c.stage = "new_local" THEN 1 ELSE 0)
           <= MaxBuckets
    /\ call' = c
    /\ UNCHANGED <<alive, poisoned, global_symbols, symbols, heap, held, lastOp, rejected,
                   probe, coll>>

StartNewGlobal(name, rt, budget) ==
    StartCall(Begin("new_global", rt, NoSymbol, name, NoSymbol, <<>>), budget)

StartNewLocal(name, namespace, rt, budget) ==
    /\ Depth(namespace) < MaxDepth
    /\ StartCall(Begin("new_local", rt, NoSymbol, name, namespace, <<>>), budget)

\* from_owned: the root of the chain is interned first, then each name below it
StartFromOwned(owned, rt, budget) ==
    StartCall(Begin("from_owned", rt, owned, Head(Chain(owned)), NoSymbol, Tail(Chain(owned))),
              budget)

\* A statement of the body; no call starts and none of the caller's other values changes.
Inside(pc) ==
    /\ call.pc = pc
    /\ UNCHANGED <<alive, steps, probe, coll>>

TablesUnchanged == UNCHANGED <<poisoned, global_symbols, symbols, heap>>
CallerUnchanged == UNCHANGED <<held, lastOp, rejected>>

\* The call ends, with a Symbol or with a panic; `guard` is what it still holds.
Return(res, locks, guard) ==
    /\ held' = IF Keeps(res) THEN held \cup {res} ELSE held
    /\ rejected' = IF res = Panic("validation")
                   THEN [rejected EXCEPT ![call.rt] = TRUE] ELSE rejected
    /\ lastOp' = [op |-> call.top, rt |-> call.rt,
                   name |-> IF call.top = "from_owned" THEN <<>> ELSE call.name,
                   namespace |-> IF call.top = "from_owned" THEN NoSymbol ELSE call.namespace,
                   owned |-> call.owned, source |-> NoSymbol, res |-> res, locks |-> locks]
    /\ call' = [pc |-> "idle", guard |-> guard]

\* if name.contains(" ") { panic!(..) }
Validate ==
    /\ Inside("validate")
    /\ TablesUnchanged
    /\ IF Contains(call.name, " ")
       THEN Return(Panic("validation"), call.locks, call.guard)
       ELSE call' = [call EXCEPT !.pc = "request_lookup"] /\ CallerUnchanged

\* .symbol_table.read() or .write(), then .expect(..)
RequestLookup ==
    /\ Inside("request_lookup")
    /\ call.guard = "none"
    /\ TablesUnchanged
    /\ LET kind == LookupLock(call.stage)
           locks == Append(call.locks, kind)
       IN  IF poisoned[call.rt]
           THEN Return(Panic("lock poisoned"), locks, "none")
           ELSE /\ call' = [call EXCEPT !.pc = "lookup", !.guard = kind, !.locks = locks]
                /\ CallerUnchanged

\* .global_symbols.iter().find(..), or .symbols.entry(..).or_insert_with(..).iter().find(..)
Lookup ==
    /\ Inside("lookup")
    /\ CallerUnchanged
    /\ UNCHANGED <<poisoned, global_symbols, heap>>
    /\ IF call.stage = "new_global"
       THEN LET found == Find(global_symbols[call.rt], call.name, heap)
            IN  /\ call' = [call EXCEPT !.pc = "lookup_end",
                               !.name_a = IF found = 0 THEN 0
                                          ELSE global_symbols[call.rt][found]]
                /\ UNCHANGED symbols
       ELSE LET s1 == EntryOrInsert(symbols[call.rt], call.namespace, heap)
                idx == FindKey(symbols[call.rt], call.namespace, heap)
                bucket == IF idx = 0 THEN <<>> ELSE s1[idx].bucket
                found == Find(bucket, call.name, heap)
            IN  /\ call.rt \notin KeyLocks(call.namespace)
                /\ symbols' = [symbols EXCEPT ![call.rt] = s1]
                /\ call' = [call EXCEPT !.pc = "lookup_end",
                               !.key_locks = KeyLocks(call.namespace),
                               !.name_a = IF found = 0 THEN 0 ELSE bucket[found]]

\* The end of the let statement: .map(|n| n.clone());
EndLookup ==
    /\ Inside("lookup_end")
    /\ TablesUnchanged
    /\ CallerUnchanged
    /\ call' = [call EXCEPT !.guard = EndOfStatement(call.guard),
                   !.pc = IF call.name_a # 0 THEN "return" ELSE "request_insert"]

\* if name_a.is_none(): .symbol_table.write().expect(..)
RequestInsert ==
    /\ Inside("request_insert")
    /\ call.guard = "none"
    /\ TablesUnchanged
    /\ LET locks == Append(call.locks, "write")
       IN  IF poisoned[call.rt]
           THEN Return(Panic("lock poisoned"), locks, "none")
           ELSE /\ call' = [call EXCEPT !.pc = "insert", !.guard = "write", !.locks = locks]
                /\ CallerUnchanged

\* .global_symbols.push(..), or .symbols.get_mut(&namespace).expect(..).push(..);
\* the panic of expect() unwinds through the guard, which poisons the lock
Insert ==
    /\ Inside("insert")
    /\ LET name_a == Len(heap) + 1
           idx2 == FindKey(symbols[call.rt], call.namespace, heap)
       IN  IF call.stage = "new_global"
           THEN /\ heap' = Append(heap, call.name)
                /\ global_symbols' = [global_symbols EXCEPT ![call.rt] = Append(@, name_a)]
                /\ call' = [call EXCEPT !.pc = "insert_end", !.name_a = name_a]
                /\ UNCHANGED <<poisoned, symbols>>
                /\ CallerUnchanged
           ELSE /\ call.rt \notin KeyLocks(call.namespace)
                /\ IF idx2 = 0
                   THEN /\ poisoned' = [poisoned EXCEPT ![call.rt] = TRUE]
                        /\ Return(Panic("namespace lookup"), call.locks, "none")
                        /\ UNCHANGED <<global_symbols, symbols, heap>>
                   ELSE /\ heap' = Append(heap, call.name)
                        /\ symbols' = [symbols EXCEPT ![call.rt][idx2].bucket = Append(@, name_a)]
                        /\ call' = [call EXCEPT !.pc = "insert_end", !.name_a = name_a]
                        /\ UNCHANGED <<poisoned, global_symbols>>
                        /\ CallerUnchanged

\* The end of the statement that pushes.
EndInsert ==
    /\ Inside("insert_end")
    /\ TablesUnchanged
    /\ CallerUnchanged
    /\ call' = [call EXCEPT !.guard = EndOfStatement(call.guard), !.pc = "return"]

\* Symbol::Global(..) or Symbol::Local(..) is built and returned; from_owned
\* passes it on as the namespace of the next new_local
ReturnSymbol ==
    /\ Inside("return")
    /\ TablesUnchanged
    /\ LET res == IF call.stage = "new_global" THEN MkGlobal(call.name_a, call.rt)
                  ELSE MkLocal(call.name_a, call.namespace, call.rt)
       IN  IF call.todo = <<>>
           THEN Return(res, call.locks, call.guard)
           ELSE /\ call' = [call EXCEPT !.pc = "validate", !.stage = "new_local",
                                        !.name = Head(call.todo), !.namespace = res,
                                        !.todo = Tail(call.todo), !.name_a = 0]
                /\ CallerUnchanged

\* The next statement of the call in progress.
Advance ==
    \/ Validate
    \/ RequestLookup
    \/ Lookup
    \/ EndLookup
    \/ RequestInsert
    \/ Insert
    \/ EndInsert
    \/ ReturnSymbol

NextLock ==
    \/ \E name \in PoisonNames, rt \in Interpreters : StartNewGlobal(name, rt, MaxOps)
    \/ \E name \in PoisonNames, namespace \in held, rt \in Interpreters :
          StartNewLocal(name, namespace, rt, MaxOps)
    \/ \E owned \in PoisonOwned, rt \in Interpreters : StartFromOwned(owned, rt, MaxOps)
    \/ \E rt \in Interpreters : DropInterpreter(rt, MaxOps)
    \/ Advance

\* A call in progress is not suspended for ever: the thread keeps running.
SpecLock == Init /\ [][NextLock]_vars /\ WF_vars(Advance)

\* a == b on two Symbols
CallEq(a, b) ==
    /\ probe' = [fn |-> "eq", a |-> a, b |-> b, out |-> SymEq(a, b, heap)]
    /\ UNCHANGED <<symbolVars, coll>>

\* s.hash(&mut hasher)
CallHash(s) ==
    /\ probe' = [fn |-> "hash", symbol |-> s, out |-> SymHash(s, heap)]
    /\ UNCHANGED <<symbolVars, coll>>

\* Symbol::get_name
CallGetName(s) ==
    /\ probe' = [fn |-> "get_name", symbol |-> s, out |-> GetName(s, heap)]
    /\ UNCHANGED <<symbolVars, coll>>

\* #[derive(Clone)] on Symbol: the Arc of the name and the Weak of the table are cloned
CallClone(s) ==
    /\ probe' = [fn |-> "clone", symbol |-> s,
                  out |-> IF s.kind = "Global" THEN MkGlobal(s.name, s.symbol_table)
                          ELSE MkLocal(s.name, s.namespace, s.symbol_table)]
    /\ UNCHANGED <<symbolVars, coll>>

\* Interning calls next to every operation that reads a Symbol.
NextFrame ==
    \/ \E name \in ValidNames, rt \in Interpreters : CallNewGlobal(name, rt, MaxFormatOps)
    \/ \E name \in ValidNames, namespace \in held, rt \in Interpreters :
          CallNewLocal(name, namespace, rt, MaxFormatOps)
    \/ \E rt \in Interpreters : DropInterpreter(rt, MaxFormatOps)
    \/ \E a, b \in held : CallEq(a, b)
    \/ \E a, b \in held : CallCmp(a, b)
    \/ \E s \in held : CallHash(s)
    \/ \E s \in held : CallGetName(s)
    \/ \E s \in held : CallClone(s)
    \/ \E s \in held : ToStringSymbol(s)
    \/ \E av \in AValuesA : CallIntoOwned(av)

SpecFrame == Init /\ [][NextFrame]_vars

\* Symbols built as the symbol! macro builds them, and the three to_string calls.
NextFormat ==
    \/ \E name \in AllNames, rt \in Interpreters : CallNewGlobal(name, rt, MaxFormatOps)
    \/ \E name \in AllNames, namespace \in held, rt \in Interpreters :
          CallNewLocal(name, namespace, rt, MaxFormatOps)
    \/ \E f \in FormatUniverse : ApplyFmt(f)
    \/ \E s \in held : ToStringSymbol(s)
    \/ \E o \in OwnedUniverse : ToStringOwned(o)

SpecFormat == Init /\ [][NextFormat]_vars

\* The Symbols a caller can compare: those it holds and the one just returned.
Known == held \cup (IF IsSymbol(lastOp.res) THEN {lastOp.res} ELSE {})

(***************************************************************************)
(* Claims.                                                                 *)
(***************************************************************************)
IsGlobalOf(s, name, rt) ==
    s.kind = "Global" /\ s.symbol_table = rt /\ GetName(s, heap) = name

\* C1: a Symbol returned by new_global(n, rt) is == (in both directions) to
\* every Global symbol of the same name the caller still holds from an earlier
\* call on the same live Interpreter, whatever calls were made in between.
C1_InterningIdempotent ==
    (lastOp.op = "new_global" /\ IsSymbol(lastOp.res)) =>
        \A s \in held :
            IsGlobalOf(s, lastOp.name, lastOp.rt) =>
                /\ SymEq(s, lastOp.res, heap)
                /\ SymEq(lastOp.res, s, heap)

\* The name was interned first, another global name after it, and the call
\* just made asked for it again.
C1_Witness ==
    /\ lastOp.op = "new_global"
    /\ IsSymbol(lastOp.res)
    /\ \E s \in held : IsGlobalOf(s, lastOp.name, lastOp.rt)
    /\ Len(global_symbols[lastOp.rt]) >= 2
    /\ global_symbols[lastOp.rt][1] = lastOp.res.name

CrossRuntimePair(s, t) ==
    /\ s.kind = "Global" /\ t.kind = "Global"
    /\ s.symbol_table # t.symbol_table
    /\ alive[s.symbol_table] /\ alive[t.symbol_table]
    /\ GetName(s, heap) = GetName(t, heap)

\* C2: two Global symbols of the same name minted by two distinct live
\* Interpreters are not ==, although their names and display strings agree.
C2_CrossRuntimeDistinct ==
    \A s, t \in Known :
        CrossRuntimePair(s, t) =>
            /\ ~SymEq(s, t, heap)
            /\ Display(s, heap) = Display(t, heap)

C2_Witness == \E s, t \in Known : CrossRuntimePair(s, t)

LocalPair(s, t) ==
    /\ s.kind = "Local" /\ t.kind = "Local"
    /\ s.symbol_table = t.symbol_table
    /\ alive[s.symbol_table]
    /\ GetName(s, heap) = GetName(t, heap)

\* C3: two Local symbols of the same name minted by one live Interpreter are
\* == exactly when their namespaces are ==.
C3_LocalEqIffNamespaceEq ==
    \A s, t \in Known :
        LocalPair(s, t) => (SymEq(s, t, heap) <=> SymEq(s.namespace, t.namespace, heap))

\* new_local just returned a Symbol that shares its name, but not its
\* namespace, with a Local symbol of the same Interpreter the caller holds.
C3_Witness ==
    /\ lastOp.op = "new_local"
    /\ IsSymbol(lastOp.res)
    /\ \E s \in held :
          /\ LocalPair(s, lastOp.res)
          /\ ~SymEq(s.namespace, lastOp.res.namespace, heap)
          /\ ~SymEq(s, lastOp.res, heap)

\* C4: a Symbol whose Interpreter has been dropped is == to no Symbol, on
\* either side of the comparison: not to itself, not to a Symbol of another
\* Interpreter with the same name chain, not to any other.
C4_DeadTableNeverEqual ==
    \A s, t \in Known :
        ~alive[s.symbol_table] => ~SymEq(s, t, heap) /\ ~SymEq(t, s, heap)

\* A Symbol of a dropped Interpreter is held next to a Symbol of a live one
\* that displays the same.
C4_Witness ==
    /\ lastOp.op = "drop"
    /\ \E s, t \in held :
          /\ ~alive[s.symbol_table]
          /\ alive[t.symbol_table]
          /\ Display(s, heap) = Display(t, heap)

Readable(s, h) == \A id \in SymIds(s) : h[id] # Freed

NameStable ==
    \A s \in held \cap held' :
        /\ Readable(s, heap')
        /\ GetName(s, heap') = GetName(s, heap)
        /\ Display(s, heap') = Display(s, heap)

\* C5: across every step, the drop of an Interpreter included, each Symbol
\* the caller holds keeps its name and its display string, and every String
\* of its namespace chain stays allocated.
C5_ReadableAfterDrop == [][NameStable]_vars

\* An Interpreter was just dropped while the caller holds a Local symbol it minted.
C5_Witness ==
    /\ lastOp.op = "drop"
    /\ \E s \in held :
          /\ s.kind = "Local"
          /\ s.symbol_table = lastOp.rt
          /\ Display(s, heap) = <<"'", "a", ":", ":", "b">>

IsInternCall(c) == c.op \in {"new_global", "new_local"}

\* The rejected call leaves the table as it was and its lock free and unpoisoned.
FailureLeavesTable ==
    (IsInternCall(lastOp') /\ Contains(lastOp'.name, " ")) =>
        /\ lastOp'.res = Panic("validation")
        /\ lastOp'.locks = <<>>
        /\ global_symbols' = global_symbols
        /\ symbols' = symbols
        /\ ~poisoned'[lastOp'.rt]

\* Once a call on an Interpreter was rejected, every call with a valid name succeeds.
LaterCallsSucceed ==
    (IsInternCall(lastOp') /\ ~Contains(lastOp'.name, " ") /\ rejected[lastOp'.rt]) =>
        IsSymbol(lastOp'.res)

\* C6: a new_global or new_local call whose name contains a space fails,
\* leaves the table unchanged and its lock neither held nor poisoned, and
\* every later new_global or new_local call with a valid name on that
\* Interpreter returns a Symbol.
C6_ValidationFailureIsLocal == [][FailureLeavesTable /\ LaterCallsSucceed]_vars

EntryGrows(e, f) == f.key = e.key /\ IsPrefix(e.bucket, f.bucket)

TableGrows(rt) ==
    /\ IsPrefix(global_symbols[rt], global_symbols'[rt])
    /\ Len(symbols[rt]) <= Len(symbols'[rt])
    /\ \A i \in DOMAIN symbols[rt] : EntryGrows(symbols[rt][i], symbols'[rt][i])
    /\ \A id \in TableIds(global_symbols[rt], symbols[rt]) : heap'[id] = heap[id]

\* C7: across every step that leaves an Interpreter alive, each entry of its
\* global list, each namespace bucket and each entry of a bucket is still
\* there, at the same place and with the same name.
C7_MonotonicGrowth ==
    [][\A rt \in Interpreters : (alive[rt] /\ alive'[rt]) => TableGrows(rt)]_vars

\* new_local just added a second name to a bucket that already held one.
C7_Witness ==
    /\ lastOp.op = "new_local"
    /\ IsSymbol(lastOp.res)
    /\ lastOp.locks = <<"write", "write">>
    /\ \E e \in Range(symbols[lastOp.rt]) :
          Len(e.bucket) >= 2 /\ e.bucket[Len(e.bucket)] = lastOp.res.name

NoDuplicate(list, h) ==
    \A i, j \in DOMAIN list : h[list[i]] = h[list[j]] => i = j

NoDuplicates ==
    \A rt \in Interpreters :
        /\ NoDuplicate(global_symbols[rt], heap)
        /\ \A e \in Range(symbols[rt]) : NoDuplicate(e.bucket, heap)

EntryCount(g, s) ==
    Len(g) + Cardinality(UNION {{<<i, j>> : j \in DOMAIN s[i].bucket} : i \in DOMAIN s})

\* The name the call asks for is already in the scope it asks for.
PresentInScope(c) ==
    \/ /\ c.op = "new_global"
       /\ \E id \in Range(global_symbols[c.rt]) : heap[id] = c.name
    \/ /\ c.op = "new_local"
       /\ \E e \in Range(symbols[c.rt]) :
             /\ e.key = c.namespace \/ SymEq(e.key, c.namespace, heap)
             /\ \E id \in Range(e.bucket) : heap[id] = c.name

PresentKeepsCount ==
    PresentInScope(lastOp') =>
        EntryCount(global_symbols'[lastOp'.rt], symbols'[lastOp'.rt])
            = EntryCount(global_symbols[lastOp'.rt], symbols[lastOp'.rt])

\* C8: after every step no global list and no namespace bucket holds a name
\* twice, and a new_global or new_local call for a name already in its scope
\* leaves the number of interned entries of the table unchanged.
C8_ContentAddressed == [][NoDuplicates' /\ PresentKeepsCount]_vars

\* new_local found the name in its bucket and returned after the one lookup.
C8_Witness ==
    /\ lastOp.op = "new_local"
    /\ IsSymbol(lastOp.res)
    /\ lastOp.locks = <<"write">>
    /\ \E e \in Range(symbols[lastOp.rt]) :
          SymEq(e.key, lastOp.namespace, heap) /\ lastOp.res.name \in Range(e.bucket)

\* C9: converting a Symbol minted by a live Interpreter to an OwnedSymbol and
\* back through from_owned on the same Interpreter gives a Symbol == to it.
C9_OwnedRoundTrip ==
    (/\ lastOp.op = "round_trip"
     /\ IsSymbol(lastOp.res)
     /\ lastOp.source.symbol_table = lastOp.rt) =>
        SymEq(lastOp.res, lastOp.source, heap)

RECURSIVE Mirrors(_, _, _)
Mirrors(s, o, h) ==
    /\ s.kind = o.kind
    /\ GetName(s, h) = o.name
    /\ s.kind = "Local" => Mirrors(s.namespace, o.namespace, h)

RECURSIVE Interned(_, _)
Interned(s, rt) ==
    /\ s.symbol_table = rt
    /\ IF s.kind = "Global" THEN s.name \in Range(global_symbols[rt])
       ELSE /\ \E e \in Range(symbols[rt]) :
                  SymEq(e.key, s.namespace, heap) /\ s.name \in Range(e.bucket)
            /\ Interned(s.namespace, rt)

\* C10: the Symbol from_owned returns has the variant and the name of the
\* OwnedSymbol at every level of the namespace chain, displays as it does,
\* and every level of it is interned in the table of the Interpreter.
C10_FromOwnedMirrors ==
    (lastOp.op \in {"from_owned", "round_trip"} /\ IsSymbol(lastOp.res)) =>
        /\ Mirrors(lastOp.res, lastOp.owned, heap)
        /\ Display(lastOp.res, heap) = OwnedDisplay(lastOp.owned)
        /\ Interned(lastOp.res, lastOp.rt)

\* from_owned just converted a local OwnedSymbol of the deepest nesting.
C10_Witness ==
    /\ lastOp.op = "from_owned"
    /\ IsSymbol(lastOp.res)
    /\ OwnedDepth(lastOp.owned) = MaxDepth
    /\ Depth(lastOp.res) = MaxDepth

RECURSIVE SymbolChain(_, _)
SymbolChain(s, h) ==
    IF s.kind = "Local" THEN Append(SymbolChain(s.namespace, h), GetName(s, h))
    ELSE <<GetName(s, h)>>

RECURSIVE JoinFrom(_, _)
JoinFrom(chain, i) ==
    IF i > Len(chain) THEN <<>>
    ELSE (IF i > 1 THEN <<":", ":">> ELSE <<>>) \o chain[i] \o JoinFrom(chain, i + 1)

\* 'g::l1::...::lk
Quoted(chain) == <<"'">> \o JoinFrom(chain, 1)

ProbedChain ==
    IF probe.fn = "fmt" THEN Chain(probe.format)
    ELSE IF probe.fn = "symbol_to_string" THEN SymbolChain(probe.symbol, heap)
    ELSE Chain(probe.owned)

\* C11: the string every to_string call returns is one apostrophe followed by
\* the names of the chain, root first, joined by "::" (the anonymous root
\* giving "_"), and a Symbol formats as every OwnedSymbol of the same chain does.
C11_SymbolFormatting ==
    (probe.fn \in {"fmt", "symbol_to_string", "owned_to_string"}) =>
        /\ probe.out = Quoted(ProbedChain)
        /\ {i \in DOMAIN probe.out : probe.out[i] = "'"} = {1}
        /\ probe.fn = "symbol_to_string" =>
              \A o \in OwnedUniverse :
                  Chain(o) = ProbedChain => OwnedDisplay(o) = probe.out

\* A Local symbol built on a Global one was just formatted as 'a::b.
C11_Witness ==
    /\ probe.fn = "symbol_to_string"
    /\ probe.symbol.kind = "Local"
    /\ probe.out = <<"'", "a", ":", ":", "b">>
    /\ \E o \in OwnedUniverse : Chain(o) = ProbedChain

\* What the caller sees of a call: the panic, or the Symbol by variant, table and text.
Observed(out) ==
    IF IsSymbol(out.res)
    THEN [kind |-> out.res.kind, symbol_table |-> out.res.symbol_table,
          text |-> Display(out.res, out.w.h)]
    ELSE out.res

TableUntouched(b) ==
    /\ global_symbols'[b] = global_symbols[b]
    /\ symbols'[b] = symbols[b]
    /\ poisoned'[b] = poisoned[b]

\* Every call the caller could make on b next gives what it would have given before the step.
SameResults(b) ==
    /\ \A n \in AllNames :
          Observed(NewGlobal(World, n, b))' = Observed(NewGlobal(World, n, b))
    /\ \A n \in AllNames, ns \in held :
          ns \in held' =>
              Observed(NewLocal(World, n, ns, b))' = Observed(NewLocal(World, n, ns, b))
    /\ \A o \in OwnedUniverse :
          Observed(FromOwned(World, o, b))' = Observed(FromOwned(World, o, b))

ThroughInterpreter(c, a) ==
    c.rt = a /\ c.op \in {"new_global", "new_local", "from_owned", "round_trip", "drop"}

\* C12: a call made through one Interpreter, its drop included, leaves the
\* table and the lock state of every other live Interpreter as they were, and
\* every call on the other Interpreter gives the same result after it as
\* before it, also with a namespace minted by the first.
C12_NoCrossTalk ==
    [][\A a \in Interpreters : ThroughInterpreter(lastOp', a) =>
          \A b \in Interpreters \ {a} :
              alive[b] => TableUntouched(b) /\ SameResults(b)]_vars

SymbolsOf(rt) == {s \in Outstanding : s.symbol_table = rt}

PoisonedCallFails ==
    (/\ steps' = steps + 1
     /\ lastOp'.op \in {"new_global", "new_local", "from_owned"}
     /\ poisoned[lastOp'.rt]) =>
        /\ IsPanic(lastOp'.res)
        /\ global_symbols'[lastOp'.rt] = global_symbols[lastOp'.rt]
        /\ symbols'[lastOp'.rt] = symbols[lastOp'.rt]

\* A comparison that reads the lock of a poisoned table panics.
PoisonedCmpFails ==
    (/\ steps' = steps
     /\ probe'.fn = "cmp"
     /\ probe'.a.kind = probe'.b.kind
     /\ poisoned[probe'.a.symbol_table] \/ poisoned[probe'.b.symbol_table]) =>
        probe'.out = "Panic"

StaysPoisoned ==
    \A rt \in Interpreters : (poisoned[rt] /\ alive'[rt]) => poisoned'[rt]

\* C14: once the lock of a table is poisoned it stays poisoned while the
\* Interpreter lives, every new_global, new_local and from_owned call on that
\* Interpreter panics without changing the table, and every comparison of two
\* Symbols of one variant that reads the lock panics instead of giving an order.
C14_PoisonSurfaced == [][PoisonedCallFails /\ PoisonedCmpFails /\ StaysPoisoned]_vars

\* from_owned was just called on an Interpreter whose lock an earlier
\* new_local call had poisoned, and panicked on the lock.
C14_Witness ==
    /\ lastOp.op = "from_owned"
    /\ poisoned[lastOp.rt]
    /\ lastOp.res = Panic("lock poisoned")

\* C15: AValue::into_unowned, called with a live Interpreter, returns a Value
\* for every AValue and never fails.
C15_IntoUnownedTotal ==
    probe.fn = "into_unowned" => ~IsPanic(probe.out)

\* The tables an owned symbol refers to, at any level of its namespace chain.
RECURSIVE OwnedSymbolRefs(_)
OwnedSymbolRefs(o) ==
    (IF "symbol_table" \in DOMAIN o THEN {o.symbol_table} ELSE {})
        \cup (IF "namespace" \in DOMAIN o THEN OwnedSymbolRefs(o.namespace) ELSE {})

OwnedValueRefs(ov) == IF ov.variant = "Symbol" THEN OwnedSymbolRefs(ov.val) ELSE {}

IntegerPart(k) ==
    CHOOSE n \in NumberUniverse :
        IF k >= 0
        THEN n >= 0 /\ n * Denominator <= k /\ k < (n + 1) * Denominator
        ELSE n <= 0 /\ (n - 1) * Denominator < k /\ k <= n * Denominator

\* C17: Number::from(a) == Number::from(b) holds exactly when the integer
\* parts of a and b, taken by truncation toward zero, are equal.
C17_NumberEqTruncates ==
    probe.fn = "number_eq" =>
        (probe.out <=> IntegerPart(probe.a) = IntegerPart(probe.b))

\* A negative and a positive fraction below one were just found equal.
C17_Witness ==
    /\ probe.fn = "number_eq"
    /\ probe.out
    /\ probe.a < 0 /\ probe.b > 0
    /\ probe.a # probe.b

SameIntegerPart == IntegerPart(probe.a) = IntegerPart(probe.b)
TruncatedOrdering == Ordering(IntegerPart(probe.a), IntegerPart(probe.b))

CmpAndHashTruncate ==
    /\ probe.fn = "number_cmp" => probe.out = TruncatedOrdering
    /\ (probe.fn = "number_hash" /\ NumberEq(probe.a, probe.b)) => probe.out[1] = probe.out[2]

\* C18 as claimed: Ord::cmp and each of <, <=, > and >= give the result of
\* comparing the integer parts, and equal Numbers hash equally.
C18_AllComparisonsTruncate ==
    /\ CmpAndHashTruncate
    /\ probe.fn = "number_lt" => (probe.out <=> TruncatedOrdering = "Less")
    /\ probe.fn = "number_le" => (probe.out <=> TruncatedOrdering \in {"Less", "Equal"})
    /\ probe.fn = "number_gt" => (probe.out <=> TruncatedOrdering = "Greater")
    /\ probe.fn = "number_ge" => (probe.out <=> TruncatedOrdering \in {"Greater", "Equal"})

\* C18 as amended: Ord::cmp gives the result of comparing the integer parts
\* and equal Numbers hash equally, while <, <=, > and >= compare the vals
\* themselves.
C18_CmpTruncatesOperatorsDoNot ==
    /\ CmpAndHashTruncate
    /\ probe.fn = "number_lt" => (probe.out <=> probe.a < probe.b)
    /\ probe.fn = "number_le" => (probe.out <=> probe.a <= probe.b)
    /\ probe.fn = "number_gt" => (probe.out <=> probe.a > probe.b)
    /\ probe.fn = "number_ge" => (probe.out <=> probe.a >= probe.b)

\* Ord::cmp just gave Equal for two Numbers of different val.
C18_Witness ==
    /\ probe.fn = "number_cmp"
    /\ probe.out = "Equal"
    /\ probe.a # probe.b

(***************************************************************************)
(* Reads and updates of Arrays and Objects.                                *)
(***************************************************************************)
Variants == {"Number", "String", "Symbol", "Array", "Object"}

\* The keys an Object holds.
KeysOf(entries) == {entries[j].key : j \in DOMAIN entries}

ArrayReadRight ==
    LET items == Node(coll, coll.arr)
        index == coll.last.index
        out   == coll.last.out
    IN  /\ out.variant \in Variants
        /\ IF index >= Len(items) THEN ValueEq(out, GetNull) ELSE out = items[index + 1]

ObjectReadRight ==
    LET entries == Node(coll, coll.obj)
        k       == coll.last.key
        out     == coll.last.out
    IN  /\ out.variant \in Variants
        /\ IF k \notin KeysOf(entries) THEN ValueEq(out, GetNull)
           ELSE \E j \in DOMAIN entries : entries[j].key = k /\ out = entries[j].value

\* C19: Array::get with an index at or past the length, and Object::get with
\* a key the Object does not hold, return a Value equal to get_null(), the
\* empty Object, and never fail; with an index below the length or a key
\* that is present they return the stored value.
C19_AbsentReadsYieldNull ==
    /\ coll.last.op = "array_get" => ArrayReadRight
    /\ coll.last.op = "object_get" => ObjectReadRight

\* A read past the end of an Array that holds something.
C19_Witness ==
    /\ coll.last.op = "array_get"
    /\ Node(coll, coll.arr) # <<>>
    /\ coll.last.index >= Len(Node(coll, coll.arr))
    /\ coll.last.out = GetNull

HandleNames == {"arr", "arr_clone", "arr_new", "obj", "obj_clone", "obj_new"}

\* What a handle of the caller shows: nothing while it is not bound.
Content(co, f) == IF co[f] = NoHandle THEN <<>> ELSE <<Node(co, co[f])>>

\* Every handle but f shows after the step what it showed before.
OnlyChanges(f) == \A g \in HandleNames \ {f} : Content(coll', g) = Content(coll, g)

\* The Array behind handle f is now the Array that was behind arr, with v pushed.
Pushed(f, v) ==
    LET before == Node(coll, coll.arr)
        after  == Node(coll', coll'[f])
    IN  /\ Len(after) = Len(before) + 1
        /\ after[Len(after)] = v
        /\ SubSeq(after, 1, Len(before)) = before

UpdatesPersist ==
    LET l == coll'.last
    IN  /\ l.op = "push_back" => OnlyChanges("arr_new") /\ Pushed("arr_new", l.value)
        /\ l.op = "push_back_mut" => OnlyChanges("arr") /\ Pushed("arr", l.value)
        /\ l.op = "set" =>
               /\ OnlyChanges("obj_new")
               /\ ObjectGet(Node(coll', coll'.obj_new), l.key) = l.value
        /\ l.op = "set_mut" =>
               /\ OnlyChanges("obj")
               /\ ObjectGet(Node(coll', coll'.obj), l.key) = l.value

UniqueKeys(entries) ==
    \A i, j \in DOMAIN entries : i # j => ~ValueEq(entries[i].key, entries[j].key)

\* C21: for an Object whose keys are unique under == of Value, the
\* conversion to a BTreeMap and back gives an Object with as many entries
\* and with the same get result for every key of the original, whether the
\* storage of the Object is shared with a clone or not.
C21_BTreeRoundTrip ==
    (coll.last.op = "btree_round_trip" /\ UniqueKeys(Node(coll, coll.obj))) =>
        LET entries == Node(coll, coll.obj)
            out == coll.last.out
        IN  /\ ~IsPanic(out)
            /\ Len(out.entries) = Len(entries)
            /\ \A k \in KeysOf(entries) : ObjectGet(out.entries, k) = ObjectGet(entries, k)

(***************************************************************************)
(* AValue: equality by content, cmp_variants by variant.                   *)
(***************************************************************************)
\* The comparison was the last call: no Interpreter was dropped since.
Fresh == probe.at = steps

ByContent ==
    (/\ probe.fn = "avalue_eq"
     /\ probe.a.variant = "A"
     /\ probe.b = AValueOwned(OwnedValueFrom(probe.a.val, heap)))
        => probe.out

ByVariant ==
    probe.fn = "cmp_variants_eq" =>
        /\ probe.a.variant # probe.b.variant => ~probe.out
        /\ (/\ probe.a.variant = "A"
            /\ probe.b.variant = "A"
            /\ ValueEq(probe.a.val, probe.b.val)) => probe.out

\* C22: AValue::A(v) == AValue::Owned(OwnedValue::from(v)) for every Value
\* v; the cmp_variants views of an A value and an Owned value are never
\* equal; the cmp_variants views of two A values holding equal Values are
\* equal.
C22_AValueByContent ==
    (probe.fn \in {"avalue_eq", "cmp_variants_eq"} /\ Fresh) => ByContent /\ ByVariant

\* A Local symbol was compared, as an A value, with its own conversion.
C22_Witness ==
    /\ probe.fn = "avalue_eq"
    /\ Fresh
    /\ probe.a.variant = "A"
    /\ probe.a.val.variant = "Symbol"
    /\ probe.a.val.val.kind = "Local"
    /\ probe.b = AValueOwned(OwnedValueFrom(probe.a.val, heap))
    /\ probe.out

(***************************************************************************)
(* The locks an intern call takes.                                         *)
(***************************************************************************)
\* The call made by this step is a new_global or new_local that returned a Symbol.
InternReturned ==
    /\ steps' = steps + 1
    /\ lastOp'.op \in {"new_global", "new_local"}
    /\ IsSymbol(lastOp'.res)

\* C23 as stated: each of new_global and new_local looks the name up under
\* the read lock and takes the write lock only to insert a name that is
\* absent; a call for a name already interned never takes the write lock.
C23_LookupUnderReadLock ==
    [][InternReturned =>
          IF PresentInScope(lastOp') THEN lastOp'.locks = <<"read">>
          ELSE lastOp'.locks = <<"read", "write">>]_vars

\* C23, amended: new_global looks the name up under the read lock and takes
\* the write lock only to insert a name that is absent, so a new_global for
\* a name already interned never takes the write lock; new_local looks the
\* name up under the write lock, and takes the write lock a second time only
\* to insert a name that is absent.
C23_LookupLockPerCall ==
    [][InternReturned =>
          LET first == IF lastOp'.op = "new_global" THEN "read" ELSE "write"
          IN  IF PresentInScope(lastOp') THEN lastOp'.locks = <<first>>
              ELSE lastOp'.locks = <<first, "write">>]_vars

\* new_local returned a Symbol the caller already held: the name was
\* interned, and the one lock taken was the write lock.
C23_Witness ==
    /\ lastOp.op = "new_local"
    /\ lastOp.res \in held
    /\ lastOp.locks = <<"write">>

(***************************************************************************)
(* Guards inside a call.                                                   *)
(***************************************************************************)
\* A lock is requested only by a call that holds no guard.
ReleasedBeforeRequest ==
    call.pc \in {"request_lookup", "request_insert"} => call.guard = "none"

\* While a guard is held, no hashing or comparison of a key takes a table lock.
NoLockUnderGuard ==
    (call.pc # "idle" /\ call.guard # "none") => call.key_locks = {}

\* Between calls the lock is free.
FreeAtReturn == call.pc = "idle" => call.guard = "none"

\* C24: in every new_global, new_local and from_owned call, each step of the
\* conversion of a namespace chain included, the guard of the lookup is
\* released before the guard of the insert is requested, no hashing or
\* comparison of a Symbol that takes the lock runs while a guard is held,
\* and the lock is free when the call returns; and every call that has
\* started comes to its end.
C24_NoSelfDeadlock ==
    /\ [](ReleasedBeforeRequest /\ NoLockUnderGuard /\ FreeAtReturn)
    /\ (call.pc # "idle") ~> (call.pc = "idle")

\* from_owned has interned the root of the chain and is inserting the Local
\* name below it: it holds the fourth guard of the call.
C24_Witness ==
    /\ call.pc = "insert"
    /\ call.top = "from_owned"
    /\ call.stage = "new_local"
    /\ call.guard = "write"
    /\ call.locks = <<"read", "write", "write", "write">>

(***************************************************************************)
(* The second lookup of new_local.                                         *)
(***************************************************************************)
\* C25: for every name without a space and every namespace Symbol, of the
\* same Interpreter, of another live one or of a dropped one, the bucket
\* found or created by the first lookup of new_local is found again by the
\* lookup that inserts the name: new_local does not panic on a valid name.
C25_NewLocalFindsBucket ==
    (lastOp.op = "new_local" /\ ~Contains(lastOp.name, " ")) =>
        lastOp.res # Panic("namespace lookup")

(***************************************************************************)
(* What changes a table.                                                   *)
(***************************************************************************)
\* The step applied one of the operations that read a Symbol or a Value.
ReadStep == probe' # probe

TablesKept == global_symbols' = global_symbols /\ symbols' = symbols

\* The step was a call of `op` on Interpreter rt.
InternStep(op, rt) == steps' = steps + 1 /\ lastOp'.op = op /\ lastOp'.rt = rt

OthersKept(rt) ==
    \A i \in Interpreters \ {rt} :
        global_symbols'[i] = global_symbols[i] /\ symbols'[i] = symbols[i]

OnlyInterningChanges ==
    /\ ReadStep => TablesKept
    /\ \A rt \in Interpreters :
          /\ InternStep("new_global", rt) => OthersKept(rt) /\ symbols'[rt] = symbols[rt]
          /\ InternStep("new_local", rt) =>
                OthersKept(rt) /\ global_symbols'[rt] = global_symbols[rt]

\* C26: clone, ==, ordering, hashing, get_name and display of a Symbol, and
\* the conversions of a Symbol to an OwnedSymbol and of a Value to an
\* OwnedValue, leave the contents of every symbol table as they were;
\* new_global changes at most the global list, and new_local at most the
\* namespace-bucket map, of the Interpreter it is given.
C26_OnlyInterningChanges == [][OnlyInterningChanges]_vars

\* Two Symbols were ordered after new_local had put a name into a bucket.
C26_Witness ==
    /\ probe.fn = "cmp"
    /\ probe.a # probe.b
    /\ lastOp.op = "new_local"
    /\ \E e \in Range(symbols[lastOp.rt]) : e.bucket # <<>>

(***************************************************************************)
(* The name of a Symbol and the entry of its table.                        *)
(***************************************************************************)
\* The Arc of the Symbol's name is an entry of its table: of the global
\* list, or of the bucket stored under the Symbol's namespace.
SharesName(s) ==
    IF s.kind = "Global" THEN s.name \in Range(global_symbols[s.symbol_table])
    ELSE \E e \in Range(symbols[s.symbol_table]) :
             e.key = s.namespace /\ s.name \in Range(e.bucket)

\* C27: while the Interpreter of a Symbol is alive, the name of the Symbol
\* is the very entry of that Interpreter's table, in the global list for a
\* Global symbol and in the bucket of its namespace for a Local symbol, not
\* a copy of it; and the table a Symbol refers to is the table of the
\* Interpreter it was constructed with.
C27_NameSharedWithTable ==
    /\ \A s \in Known : alive[s.symbol_table] => SharesName(s)
    /\ (lastOp.op \in {"new_global", "new_local", "from_owned"} /\ IsSymbol(lastOp.res)) =>
           lastOp.res.symbol_table = lastOp.rt

\* A Local symbol of a live Interpreter is held next to the Global symbol
\* of the same name, each sharing the entry of its own scope.
C27_Witness ==
    \E s, g \in Known :
        /\ s.kind = "Local" /\ g.kind = "Global"
        /\ s.symbol_table = g.symbol_table /\ alive[s.symbol_table]
        /\ GetName(s, heap) = GetName(g, heap)
        /\ s.name # g.name
        /\ SharesName(s) /\ SharesName(g)

\* C28: no lock of a table is ever poisoned: whatever new_global,
\* new_local, from_owned, comparisons and drops of Interpreters were run,
\* rejected calls and namespaces of other or dropped Interpreters included,
\* no call has panicked while it held a guard of a table lock.
C28_NeverPoisoned ==
    \A i \in Interpreters : ~poisoned[i]

\* a.cmp(b) is Equal exactly when a == b, and a.partial_cmp(b) is Some of
\* a.cmp(b), for the two Symbols just compared.
EqAgreesWithCmp ==
    (probe'.fn = "cmp" /\ UNCHANGED symbolVars) =>
        /\ (probe'.out = "Equal") <=> SymEq(probe'.a, probe'.b, heap)
        /\ SymPartialCmp(probe'.a, probe'.b, heap, poisoned) =
               IF probe'.out = "Panic" THEN [kind |-> "Panic"]
               ELSE [kind |-> "Some", val |-> probe'.out]

\* C29: equality and ordering of Symbols agree: for any two Symbols a and
\* b, whether their tables are alive or dropped, a.cmp(b) is Equal exactly
\* when a == b, and partial_cmp gives the same result as cmp.
C29_EqAgreesWithCmp == [][EqAgreesWithCmp]_vars

\* Two A values were just compared.
ComparedAsA ==
    /\ probe.fn = "avalue_eq"
    /\ Fresh
    /\ probe.a.variant = "A"
    /\ probe.b.variant = "A"

\* C30: the equality of AValue refines the equality of Value: for any two
\* Values a and b, Symbols of the same or of different Interpreters and
\* Local symbols included, AValue::A(a) == AValue::A(b) exactly when a == b.
C30_AValueRefinesValue ==
    ComparedAsA => (probe.out <=> ValueEq(probe.a.val, probe.b.val))

====
